---- MODULE Spec2Model ----
(***************************************************************************)
(* A model of the enigma crate: permutations (math.rs), runes (utils.rs),  *)
(* the plug board, reflector, rotator and rotator group (components/) and  *)
(* the Enigma machine (lib.rs).                                            *)
(*                                                                         *)
(* A Vec<u8> / Permutation is a sequence of numbers; Rust index i is TLA+  *)
(* index i + 1.  A char is its code point.  A Result is a record           *)
(* [tag, val] with tag "Ok" or "Err"; "None" marks a value that does not   *)
(* exist (not constructed yet, or moved away).                             *)
(***************************************************************************)
EXTENDS Integers, Sequences, FiniteSets

VARIABLES
    builder,      \* SpecPerm: the PermutationBuilder under construction
    values,       \* SpecPerm: the Vec<u8> handed to Permutation::from_perm
    perm,         \* SpecPerm: Result of Permutation::from_perm / build()
    inverse,      \* SpecPerm: perm.inverse()
    plug_board,   \* SpecPerm: Result of PlugBoard::from_perm(perm)
    reflector,    \* SpecPerm: Result of Reflector::from_perm(perm)
    rotator,      \* SpecPerm: Result of Rotator::new(perm, offset)
    enigma,       \* the Enigma machine: [plug, rotators, reflector]
    start,        \* SpecGroup: rotor offsets when the machine was constructed
    calls,        \* SpecGroup: RotatorGroup::advance calls since construction
    steps,        \* SpecGroup: Rotator::advance calls per rotor since construction
    initial,      \* SpecEnigma: the machine as constructed; SpecReciprocal:
                  \* the second machine, built from the same components
    log,          \* SpecEnigma: <<input rune, output rune>> of every map_rune
                  \* call; SpecReciprocal: the map_str calls made so far
    manual,       \* SpecEnigma: calls of advance_rotators made by the caller
    call,         \* SpecEnigma: the last call made: [op, arg, ret, advanced]
    crack_config, \* enigma-crack: the Config that load_config returned
    lines,        \* enigma-crack: File::open of the secret header file: Err,
                  \* or Ok of its lines
    secret_headers,    \* enigma-crack: what load_secret_headers returned
    secret_perms,      \* enigma-crack: what get_secret_permutations returned
    pc,                \* enigma-crack: where main is
    all_perms,         \* enigma-crack: the length of all_perms in
                       \* get_all_rotator_reflector_perm; its i-th entry is
                       \* read off the machine i advances after construction
    possible_settings  \* enigma-crack: the positions main has reported

permVars == <<builder, values, perm, inverse, plug_board, reflector, rotator>>
groupVars == <<start, calls, steps>>
textVars == <<initial, log, manual, call>>
crackVars == <<crack_config, lines, secret_headers, secret_perms, pc,
               all_perms, possible_settings>>
vars == <<builder, values, perm, inverse, plug_board, reflector, rotator,
          enigma, start, calls, steps, initial, log, manual, call,
          crack_config, lines, secret_headers, secret_perms, pc,
          all_perms, possible_settings>>

----------------------------------------------------------------------------
(* Bounds of the model *)

\* Longest Vec<u8> enumerated as an input of Permutation::from_perm.
MaxLen == 3
\* Largest u8 value in an enumerated input of Permutation::from_perm.
MaxVal == 3
\* Largest index the model passes to PermutationBuilder::swap.
MaxSwapIdx == 4
\* Most RotatorGroup::advance calls counted from the construction of a machine.
MaxCalls == 676
\* Most letters one machine maps (map_rune calls, direct or from map_str).
MaxLetters == 2
\* Largest size of which every permutation is decomposed into cycles.
MaxPermSize == 5
\* Most advance_rotators calls the caller of one machine makes.
MaxManual == 1
\* Longest string handed to map_str.
MaxStrLen == 2

----------------------------------------------------------------------------
(* Rust scalars *)

U8_MAX == 255

\* `as u8`: truncation to 8 bits
AsU8(x) == x % (U8_MAX + 1)

Ok(v) == [tag |-> "Ok", val |-> v]
Err == [tag |-> "Err", val |-> <<>>]
None == [tag |-> "None", val |-> <<>>]

\* a maximum that keeps the later value
Max_keep_latest(a, b) == b

Max(a, b) == IF a >= b THEN a ELSE b

----------------------------------------------------------------------------
(* utils.rs *)

RUNE_VALUE_MAX == 25
RUNE_SET_SIZE == RUNE_VALUE_MAX + 1

Runes == 0..RUNE_VALUE_MAX

----------------------------------------------------------------------------
(* math.rs: Permutation *)

RECURSIVE identity_perm_loop(_, _, _)
identity_perm_loop(vec, i, n) ==
    IF i >= n THEN vec ELSE identity_perm_loop(Append(vec, i), i + 1, n)

identity_perm(n) == identity_perm_loop(<<>>, 0, n)

Permutation_from_perm_no_dup_check(p) ==
    IF Len(p) > U8_MAX THEN Err
    ELSE LET n == AsU8(Len(p)) IN
         IF \E k \in 1..Len(p) : p[k] >= n THEN Err
         ELSE Ok(p)

Permutation_from_perm_range_off_by_one(p) ==
    IF Len(p) > U8_MAX THEN Err
    ELSE LET n == AsU8(Len(p)) IN
         IF \E k \in 1..Len(p) : p[k] > n THEN Err
         ELSE IF \E i \in 0..(Len(p) - 1) : \E j \in (i + 1)..(Len(p) - 1) :
                     p[i + 1] = p[j + 1]
              THEN Err
              ELSE Ok(p)

Permutation_from_perm(p) ==
    IF Len(p) > U8_MAX THEN Err
    ELSE LET n == AsU8(Len(p)) IN
         IF \E k \in 1..Len(p) : p[k] >= n THEN Err
         ELSE IF \E i \in 0..(Len(p) - 1) : \E j \in (i + 1)..(Len(p) - 1) :
                     p[i + 1] = p[j + 1]
              THEN Err
              ELSE Ok(p)

Permutation_n(p) == AsU8(Len(p))

Permutation_map(p, element) == p[element + 1]

\* the inner `while !visited[j]` of max_cycle_len
RECURSIVE max_cycle_len_walk(_, _, _, _)
max_cycle_len_walk(p, visited, j, current_len) ==
    IF visited[j + 1]
    THEN [visited |-> visited, current_len |-> current_len]
    ELSE max_cycle_len_walk(p, [visited EXCEPT ![j + 1] = TRUE], p[j + 1],
                            current_len + 1)

\* the outer `for i in 0..self.perm.len()` of max_cycle_len
RECURSIVE max_cycle_len_loop(_, _, _, _)
max_cycle_len_loop(p, visited, i, max_len) ==
    IF i >= Len(p) THEN max_len
    ELSE IF visited[i + 1] THEN max_cycle_len_loop(p, visited, i + 1, max_len)
    ELSE LET w == max_cycle_len_walk(p, visited, i, 0) IN
         max_cycle_len_loop(p, w.visited, i + 1, Max(max_len, w.current_len))

Permutation_max_cycle_len(p) ==
    max_cycle_len_loop(p, [k \in 1..Len(p) |-> FALSE], 0, 0)

\* Permutation::inverse is called by Rotator::new; it is the scatter-write
\* inverse[perm[i]] = i for i = 0, 1, ..., n-1 into a buffer of n entries:
\* entry v ends as the last i with perm[i] = v (0, the buffer's filling, when
\* there is none).
Permutation_inverse(p) ==
    [k \in 1..Len(p) |->
        LET writers == {i \in 0..(Len(p) - 1) : p[i + 1] = k - 1} IN
        IF writers = {} THEN 0
        ELSE CHOOSE i \in writers : \A h \in writers : h <= i]

----------------------------------------------------------------------------
(* math.rs: PermutationBuilder *)

PermutationBuilder_new(n) == identity_perm(n)

\* swap that stores perm[j] at i and leaves position j as it was
PermutationBuilder_swap_no_tmp(b, i, j) == [b EXCEPT ![i + 1] = b[j + 1]]

PermutationBuilder_swap(b, i, j) ==
    LET tmp == b[i + 1] IN
    [[b EXCEPT ![i + 1] = b[j + 1]] EXCEPT ![j + 1] = tmp]

PermutationBuilder_build(b) == b

RECURSIVE swap_all(_, _)
swap_all(b, pairs) ==
    IF pairs = <<>> THEN b
    ELSE swap_all(PermutationBuilder_swap(b, Head(pairs)[1], Head(pairs)[2]),
                  Tail(pairs))

\* components/mod.rs, the fixture of the tests: (0 1)(2 3)...(24 25)
create_test_perm_builder ==
    swap_all(PermutationBuilder_new(RUNE_SET_SIZE),
             <<<<0, 1>>, <<2, 3>>, <<4, 5>>, <<6, 7>>, <<8, 9>>,
               <<10, 11>>, <<12, 13>>, <<14, 15>>, <<16, 17>>, <<18, 19>>,
               <<20, 21>>, <<22, 23>>, <<24, 25>>>>)

\* components/rotator.rs, the fixture of the tests: swap(i, i + 1) for
\* i in 0..RUNE_VALUE_MAX, which is the shift x -> x + 1 mod 26
create_test_perm_builder_shift ==
    swap_all(PermutationBuilder_new(RUNE_SET_SIZE),
             [i \in 1..RUNE_VALUE_MAX |-> <<i - 1, i>>])

----------------------------------------------------------------------------
(* utils.rs: Rune.  A Rune is its value, a u8. *)

is_ascii_uppercase(ch) == ch \in 65..90
is_ascii_lowercase(ch) == ch \in 97..122
is_ascii_alphabetic(ch) == is_ascii_uppercase(ch) \/ is_ascii_lowercase(ch)
to_ascii_uppercase(ch) == IF is_ascii_lowercase(ch) THEN ch - 32 ELSE ch

Rune_from_char(ch) ==
    IF ~is_ascii_alphabetic(ch) THEN Err
    ELSE LET value == IF is_ascii_lowercase(ch) THEN to_ascii_uppercase(ch)
                      ELSE ch
         IN Ok(AsU8(value) - 65)

Rune_into_ascii(rune) == rune + 65

Rune_into_char(rune) == Rune_into_ascii(rune)

----------------------------------------------------------------------------
(* components/plug_board.rs *)

PlugBoard_from_perm_any_cycle(p) ==
    IF Permutation_n(p) # RUNE_SET_SIZE THEN Err ELSE Ok([perm |-> p])

PlugBoard_from_perm(p) ==
    IF Permutation_n(p) # RUNE_SET_SIZE THEN Err
    ELSE IF Permutation_max_cycle_len(p) > 2 THEN Err
    ELSE Ok([perm |-> p])

PlugBoard_map(self, input) == Permutation_map(self.perm, input)

----------------------------------------------------------------------------
(* components/reflector.rs *)

Reflector_from_perm_no_cycle_check(p) ==
    IF Permutation_n(p) # RUNE_SET_SIZE THEN Err
    ELSE IF \E i \in 0..(Permutation_n(p) - 1) : Permutation_map(p, i) = i
         THEN Err
    ELSE Ok([perm |-> p])

\* from_perm without the test for letters mapped to themselves
Reflector_from_perm_no_fixed_check(p) ==
    IF Permutation_n(p) # RUNE_SET_SIZE THEN Err
    ELSE IF Permutation_max_cycle_len(p) # 2 THEN Err
    ELSE Ok([perm |-> p])

Reflector_from_perm(p) ==
    IF Permutation_n(p) # RUNE_SET_SIZE THEN Err
    ELSE IF \E i \in 0..(Permutation_n(p) - 1) : Permutation_map(p, i) = i
         THEN Err
    ELSE IF Permutation_max_cycle_len(p) # 2 THEN Err
    ELSE Ok([perm |-> p])

\* a reflector that hands the rune back as it came
Reflector_map_pass_through(self, input) == input

Reflector_map(self, input) == Permutation_map(self.perm, input)

----------------------------------------------------------------------------
(* components/rotator.rs: Rotator *)

Rotator_new(p, offset) ==
    IF Permutation_n(p) # RUNE_SET_SIZE THEN Err
    ELSE Ok([perm_forward |-> p,
             perm_backward |-> Permutation_inverse(p),
             offset |-> offset % RUNE_SET_SIZE])

Rotator_map_no_unshift(self, p, input) ==
    Permutation_map(p, AsU8(input + self.offset) % RUNE_SET_SIZE)

\* map with the subtraction of the offset done on every path
Rotator_map_always_sub(self, p, input) ==
    AsU8(Permutation_map(p, AsU8(input + self.offset) % RUNE_SET_SIZE)
         - self.offset)

\* the value of each u8 addition and subtraction map evaluates, before it
\* is cut to 8 bits: input.value() + self.offset; mapped_value -
\* self.offset on the first path; mapped_value + RUNE_SET_SIZE and
\* (mapped_value + RUNE_SET_SIZE) - self.offset on the second
Rotator_map_arith(self, p, input) ==
    LET input_value == AsU8(input + self.offset) % RUNE_SET_SIZE
        mapped_value == Permutation_map(p, input_value)
    IN {input + self.offset}
       \cup (IF mapped_value >= self.offset
             THEN {mapped_value - self.offset}
             ELSE {mapped_value + RUNE_SET_SIZE,
                   AsU8(mapped_value + RUNE_SET_SIZE) - self.offset})

Rotator_map(self, p, input) ==
    LET input_value == AsU8(input + self.offset) % RUNE_SET_SIZE
        mapped_value == Permutation_map(p, input_value)
    IN IF mapped_value >= self.offset
       THEN mapped_value - self.offset
       ELSE AsU8(AsU8(mapped_value + RUNE_SET_SIZE) - self.offset)

Rotator_map_forward(self, input) == Rotator_map(self, self.perm_forward, input)

Rotator_map_backward(self, input) == Rotator_map(self, self.perm_backward, input)

Rotator_advance_carry_inverted(self) ==
    LET offset == AsU8(self.offset + 1) % RUNE_SET_SIZE IN
    [self |-> [self EXCEPT !.offset = offset], ret |-> offset = 0]

\* advance without the reduction modulo RUNE_SET_SIZE
Rotator_advance_no_mod(self) ==
    LET offset == AsU8(self.offset + 1) IN
    [self |-> [self EXCEPT !.offset = offset], ret |-> offset # 0]

\* the value of the u8 addition advance evaluates, before it is cut to 8 bits
Rotator_advance_arith(self) == {self.offset + 1}

\* advance(&mut self) -> bool: the rotator after the call and the value returned
Rotator_advance(self) ==
    LET offset == AsU8(self.offset + 1) % RUNE_SET_SIZE IN
    [self |-> [self EXCEPT !.offset = offset], ret |-> offset # 0]

----------------------------------------------------------------------------
(* components/rotator.rs: RotatorGroup, [rotators |-> <<fast, medium, slow>>] *)

RotatorGroup_new(rotators) == [rotators |-> rotators]

RECURSIVE map_forward_loop(_, _, _)
map_forward_loop(rotators, k, input) ==
    IF k > Len(rotators) THEN input
    ELSE map_forward_loop(rotators, k + 1,
                          Rotator_map_forward(rotators[k], input))

\* map_forward that passes the rotators from the slow one to the fast one
RotatorGroup_map_forward_rev(self, input) ==
    Rotator_map_forward(self.rotators[1],
        Rotator_map_forward(self.rotators[2],
            Rotator_map_forward(self.rotators[3], input)))

RotatorGroup_map_forward(self, input) ==
    map_forward_loop(self.rotators, 1, input)

RECURSIVE map_backward_loop(_, _, _)
map_backward_loop(rotators, k, input) ==
    IF k < 1 THEN input
    ELSE map_backward_loop(rotators, k - 1,
                           Rotator_map_backward(rotators[k], input))

RotatorGroup_map_backward_no_rev(self, input) ==
    Rotator_map_backward(self.rotators[3],
        Rotator_map_backward(self.rotators[2],
            Rotator_map_backward(self.rotators[1], input)))

RotatorGroup_map_backward(self, input) ==
    map_backward_loop(self.rotators, Len(self.rotators), input)

\* the loop over the fast and the medium rotator only
RECURSIVE advance_loop_two(_, _)
advance_loop_two(rotators, k) ==
    IF k > 2 THEN rotators
    ELSE LET a == Rotator_advance(rotators[k])
             rs == [rotators EXCEPT ![k] = a.self]
         IN IF a.ret THEN rs ELSE advance_loop_two(rs, k + 1)

\* `for r in &mut self.rotators { if r.advance() { break; } }`
RECURSIVE advance_loop(_, _)
advance_loop(rotators, k) ==
    IF k > Len(rotators) THEN rotators
    ELSE LET a == Rotator_advance(rotators[k])
             rs == [rotators EXCEPT ![k] = a.self]
         IN IF a.ret THEN rs ELSE advance_loop(rs, k + 1)

\* the same loop without the break
RECURSIVE advance_loop_no_break(_, _)
advance_loop_no_break(rotators, k) ==
    IF k > Len(rotators) THEN rotators
    ELSE advance_loop_no_break(
             [rotators EXCEPT ![k] = Rotator_advance(rotators[k]).self], k + 1)

RotatorGroup_advance_all(self) ==
    [rotators |-> advance_loop_no_break(self.rotators, 1)]

RotatorGroup_advance(self) == [rotators |-> advance_loop(self.rotators, 1)]

----------------------------------------------------------------------------
(* lib.rs: Enigma, [plug, rotators, reflector] *)

Enigma_new(plug, rotators, refl) ==
    [plug |-> plug, rotators |-> rotators, reflector |-> refl]

\* map_rune_static that does not pass the plug board on the way out
Enigma_map_rune_static_plug_once(self, input) ==
    LET i1 == PlugBoard_map(self.plug, input)
        i2 == RotatorGroup_map_forward(self.rotators, i1)
        i3 == Reflector_map(self.reflector, i2)
        i4 == RotatorGroup_map_backward(self.rotators, i3)
    IN i4

Enigma_map_rune_static(self, input) ==
    LET i1 == PlugBoard_map(self.plug, input)
        i2 == RotatorGroup_map_forward(self.rotators, i1)
        i3 == Reflector_map(self.reflector, i2)
        i4 == RotatorGroup_map_backward(self.rotators, i3)
        i5 == PlugBoard_map(self.plug, i4)
    IN i5

Enigma_advance_rotators(self) ==
    [self EXCEPT !.rotators = RotatorGroup_advance(self.rotators)]

\* map_rune(&mut self, input) -> Rune: the machine after the call and the
\* value returned
Enigma_map_rune_advance_first(self, input) ==
    LET next == Enigma_advance_rotators(self) IN
    [self |-> next, ret |-> Enigma_map_rune_static(next, input)]

Enigma_map_rune(self, input) ==
    LET ret == Enigma_map_rune_static(self, input) IN
    [self |-> Enigma_advance_rotators(self), ret |-> ret]

\* the loop of map_str over s.chars(), from character k on; trace lists
\* <<input, output>> of the map_rune calls made
RECURSIVE map_str_loop_pass_through(_, _, _, _, _)
map_str_loop_pass_through(self, s, k, output, trace) ==
    IF k > Len(s) THEN [self |-> self, ret |-> output, trace |-> trace]
    ELSE LET r == Rune_from_char(s[k]) IN
         IF r.tag = "Ok"
         THEN LET m == Enigma_map_rune(self, r.val) IN
              map_str_loop_pass_through(m.self, s, k + 1,
                           Append(output, Rune_into_char(m.ret)),
                           Append(trace, <<r.val, m.ret>>))
         ELSE map_str_loop_pass_through(self, s, k + 1, Append(output, s[k]),
                                        trace)

RECURSIVE map_str_loop(_, _, _, _, _)
map_str_loop(self, s, k, output, trace) ==
    IF k > Len(s) THEN [self |-> self, ret |-> output, trace |-> trace]
    ELSE LET r == Rune_from_char(s[k]) IN
         IF r.tag = "Ok"
         THEN LET m == Enigma_map_rune(self, r.val) IN
              map_str_loop(m.self, s, k + 1,
                           Append(output, Rune_into_char(m.ret)),
                           Append(trace, <<r.val, m.ret>>))
         ELSE map_str_loop(self, s, k + 1, output, trace)

Enigma_map_str(self, s) == map_str_loop(self, s, 1, <<>>, <<>>)

----------------------------------------------------------------------------
(* Inputs *)

Some(v) == [tag |-> "Some", val |-> v]

\* every Vec<u8> of at most MaxLen values in 0..MaxVal
SmallVecs == UNION {[1..n -> 0..MaxVal] : n \in 0..MaxLen}

\* the largest size from_perm accepts, and two vectors longer than that
LongVecs == {[k \in 1..U8_MAX |-> k - 1], [k \in 1..(U8_MAX + 1) |-> k - 1],
             [k \in 1..(U8_MAX + 2) |-> 0]}

PermInputs == SmallVecs \cup LongVecs

BuilderStarts == {PermutationBuilder_new(MaxSwapIdx + 1),
                  PermutationBuilder_new(RUNE_SET_SIZE),
                  create_test_perm_builder}

\* the u8 offsets handed to Rotator::new
OffsetInputs == 0..U8_MAX

\* the u8 offsets of the rotators of a configured machine: 0, 25, and two
\* that exceed 25 (39 is stored as 13, 255 as 21)
ConfigOffsets == {0, RUNE_VALUE_MAX, RUNE_SET_SIZE + 13, U8_MAX}

\* the same with more offsets in between
GroupOffsets == ConfigOffsets \cup {1, 12, RUNE_VALUE_MAX - 1, RUNE_SET_SIZE}

\* the offsets of the machines that map text: all 0, and one step before
\* the fast and the medium rotator wrap
TextOffsets == {<<0, 0, 0>>, <<RUNE_VALUE_MAX, RUNE_VALUE_MAX, U8_MAX>>}

\* the characters of the strings handed to map_str: 'a', 'Z', '[' (the
\* character after 'Z') and U+00E9, a letter outside ASCII
CharInputs == {97, 90, 91, 233}

Strings == UNION {[1..n -> CharInputs] : n \in 0..MaxStrLen}

\* the runes handed to map_rune
RuneInputs == {0, RUNE_VALUE_MAX}

WiringI ==
    <<4, 10, 12, 5, 11, 6, 3, 16, 21, 25, 13, 19, 14, 22, 24, 7, 23, 20, 18,
      15, 0, 8, 1, 17, 2, 9>>
WiringII ==
    <<0, 9, 3, 10, 18, 8, 17, 20, 23, 1, 11, 7, 22, 19, 12, 2, 16, 6, 25, 13,
      15, 24, 5, 21, 14, 4>>
WiringIII ==
    <<1, 3, 5, 7, 9, 11, 2, 15, 17, 19, 23, 21, 25, 13, 24, 4, 8, 22, 6, 0,
      10, 12, 20, 18, 16, 14>>

\* Machine settings: the plug board and the reflector as the pairs handed
\* to PermutationBuilder::swap, the rotators as three wirings.
NoPairs == <<>>
TwoPairs == <<<<0, 1>>, <<2, 3>>>>
FixturePairs == [i \in 1..13 |-> <<2 * i - 2, 2 * i - 1>>]
MirrorPairs == [i \in 1..13 |-> <<i - 1, RUNE_SET_SIZE - i>>]
ShiftWiring == PermutationBuilder_build(create_test_perm_builder_shift)
IdentityWiring == identity_perm(RUNE_SET_SIZE)

Setting(pb, w1, w2, w3, rf) ==
    [plug_board |-> pb, rotators |-> <<w1, w2, w3>>, reflector |-> rf]

\* settings every constructor accepts
GoodSettings ==
    {Setting(NoPairs, ShiftWiring, ShiftWiring, ShiftWiring, FixturePairs),
     Setting(NoPairs, IdentityWiring, IdentityWiring, IdentityWiring,
             FixturePairs),
     Setting(TwoPairs, WiringI, WiringII, WiringIII, MirrorPairs),
     Setting(FixturePairs, WiringIII, WiringI, WiringII, FixturePairs)}

\* settings a constructor refuses: a plug board with a 3-cycle, a wiring of
\* size 4, a wiring with a repeated letter, a reflector with fixed points,
\* a reflector with a 4-cycle
BadSettings ==
    {Setting(<<<<0, 1>>, <<1, 2>>>>, WiringI, WiringII, WiringIII,
             FixturePairs),
     Setting(TwoPairs, WiringI, <<0, 1, 2, 3>>, WiringIII, MirrorPairs),
     Setting(TwoPairs, WiringI, WiringII, [WiringIII EXCEPT ![1] = 3],
             MirrorPairs),
     Setting(TwoPairs, WiringI, WiringII, WiringIII, TwoPairs),
     Setting(TwoPairs, WiringI, WiringII, WiringIII,
             Append(FixturePairs, <<0, 2>>))}

Settings == GoodSettings \cup BadSettings

\* the settings of the machines that map text
TextSettings ==
    {Setting(TwoPairs, WiringI, WiringII, WiringIII, MirrorPairs),
     Setting(FixturePairs, WiringIII, WiringI, WiringII, FixturePairs)}
    \cup BadSettings

----------------------------------------------------------------------------
(* SpecPerm: building one Permutation and one component from it *)

\* enigma-crack does not run
NoCrack ==
    /\ crack_config = None /\ lines = None
    /\ secret_headers = None /\ secret_perms = None
    /\ pc = "none" /\ all_perms = 0 /\ possible_settings = <<>>

NoMachine ==
    /\ enigma = None
    /\ start = <<>> /\ calls = 0 /\ steps = <<>>
    /\ initial = None /\ log = <<>> /\ manual = 0 /\ call = None

InitPerm ==
    /\ \/ builder \in {Some(b) : b \in BuilderStarts} /\ values = None
       \/ builder = None /\ values \in {Some(v) : v \in PermInputs}
    /\ perm = None
    /\ inverse = None
    /\ plug_board = None
    /\ reflector = None
    /\ rotator = None
    /\ NoMachine
    /\ NoCrack

\* builder = builder.swap(i, j); an index >= n panics
Swap(i, j) ==
    /\ builder.tag = "Some"
    /\ i < Len(builder.val) /\ j < Len(builder.val)
    /\ builder' = Some(PermutationBuilder_swap(builder.val, i, j))
    /\ UNCHANGED <<values, perm, inverse, plug_board, reflector, rotator,
                   enigma, groupVars, textVars, crackVars>>

\* perm = builder.build(); the builder is moved
Build ==
    /\ builder.tag = "Some"
    /\ perm' = Ok(PermutationBuilder_build(builder.val))
    /\ builder' = None
    /\ UNCHANGED <<values, inverse, plug_board, reflector, rotator,
                   enigma, groupVars, textVars, crackVars>>

\* perm = Permutation::from_perm(values)
FromPerm ==
    /\ values.tag = "Some"
    /\ perm.tag = "None"
    /\ perm' = Permutation_from_perm(values.val)
    /\ UNCHANGED <<builder, values, inverse, plug_board, reflector, rotator,
                   enigma, groupVars, textVars, crackVars>>

Unused ==
    /\ perm.tag = "Ok"
    /\ inverse.tag = "None"
    /\ plug_board.tag = "None"
    /\ reflector.tag = "None"
    /\ rotator.tag = "None"

\* inverse = perm.inverse()
Inverse ==
    /\ Unused
    /\ inverse' = Ok(Permutation_inverse(perm.val))
    /\ UNCHANGED <<builder, values, perm, plug_board, reflector, rotator,
                   enigma, groupVars, textVars, crackVars>>

\* plug_board = PlugBoard::from_perm(perm)
PlugBoardFromPerm ==
    /\ Unused
    /\ plug_board' = PlugBoard_from_perm(perm.val)
    /\ UNCHANGED <<builder, values, perm, inverse, reflector, rotator,
                   enigma, groupVars, textVars, crackVars>>

\* reflector = Reflector::from_perm(perm)
ReflectorFromPerm ==
    /\ Unused
    /\ reflector' = Reflector_from_perm(perm.val)
    /\ UNCHANGED <<builder, values, perm, inverse, plug_board, rotator,
                   enigma, groupVars, textVars, crackVars>>

\* rotator = Rotator::new(perm, offset)
RotatorNew(offset) ==
    /\ Unused
    /\ rotator' = Rotator_new(perm.val, offset)
    /\ UNCHANGED <<builder, values, perm, inverse, plug_board, reflector,
                   enigma, groupVars, textVars, crackVars>>

NextPerm ==
    \/ \E i, j \in 0..MaxSwapIdx : Swap(i, j)
    \/ Build
    \/ FromPerm
    \/ Inverse
    \/ PlugBoardFromPerm
    \/ ReflectorFromPerm
    \/ \E offset \in OffsetInputs : RotatorNew(offset)

SpecPerm == InitPerm /\ [][NextPerm]_vars

----------------------------------------------------------------------------
(* The notions the claims are stated in *)

\* q is a rearrangement of [0, 1, ..., n-1]
IsPermutation(q) == {q[k] : k \in 1..Len(q)} = 0..(Len(q) - 1)

\* p applied k times to x
RECURSIVE Iterate(_, _, _)
Iterate(p, x, k) == IF k = 0 THEN x ELSE Iterate(p, p[x + 1], k - 1)

\* the length of the cycle of p that x lies on
CycleLenOf(p, x) ==
    CHOOSE k \in 1..Len(p) :
        /\ Iterate(p, x, k) = x
        /\ \A j \in 1..(k - 1) : Iterate(p, x, j) # x

CycleLens(p) == {CycleLenOf(p, x) : x \in 0..(Len(p) - 1)}

----------------------------------------------------------------------------
(* Claims checked under SpecPerm *)

\* C3: for every valid Permutation P of size n, P.inverse() is a valid
\* Permutation of size n and P.inverse().map(P.map(x)) = x for every x in
\* [0, n).
C3_InverseRoundTrip ==
    inverse.tag = "Ok" =>
        LET P == perm.val
            Q == inverse.val
        IN /\ IsPermutation(Q)
           /\ Permutation_n(Q) = Permutation_n(P)
           /\ \A x \in 0..(Permutation_n(P) - 1) :
                  Permutation_map(Q, Permutation_map(P, x)) = x

\* a permutation of size 26 that is not its own inverse has been inverted
C3_Witness ==
    /\ inverse.tag = "Ok"
    /\ Len(perm.val) = RUNE_SET_SIZE
    /\ inverse.val # perm.val

\* C22: PermutationBuilder::new(n) starts at the identity, and each
\* swap(i, j) with i, j < n exchanges the values stored at positions i and j
\* and changes no other position; hence after any sequence of in-range swaps
\* the array is a bijection on {0..n-1}, and build() returns it, unchanged
\* and unvalidated, as a valid Permutation.
C22_BuilderSwaps ==
    /\ [](/\ \A n \in 0..RUNE_SET_SIZE :
                PermutationBuilder_new(n) = [k \in 1..n |-> k - 1]
          /\ builder.tag = "Some" => IsPermutation(builder.val))
    /\ [][\A i, j \in 0..MaxSwapIdx :
              Swap(i, j) =>
                  /\ builder'.val[i + 1] = builder.val[j + 1]
                  /\ builder'.val[j + 1] = builder.val[i + 1]
                  /\ Len(builder'.val) = Len(builder.val)
                  /\ \A k \in 0..(Len(builder.val) - 1) :
                         k \notin {i, j} =>
                             builder'.val[k + 1] = builder.val[k + 1]]_vars
    /\ [][Build => /\ perm' = Ok(builder.val)
                   /\ IsPermutation(perm'.val)]_vars

\* the builder of size 5 has been built after swap(1, 2) and swap(2, 3)
C22_Witness ==
    /\ builder = None /\ values = None
    /\ perm = Ok(<<0, 2, 3, 1, 4>>)

\* C8: PlugBoard::from_perm(p) succeeds if and only if p has size 26 and no
\* cycle of p is longer than 2: a permutation with a cycle of length 3 or
\* more is rejected, a pairing with the other letters fixed is accepted.
C8_PlugBoardAcceptance ==
    plug_board.tag # "None" =>
        LET P == perm.val IN
        /\ plug_board.tag = "Ok" <=>
               (Len(P) = RUNE_SET_SIZE /\ \A c \in CycleLens(P) : c <= 2)
        /\ plug_board.tag = "Ok" <=>
               (Len(P) = RUNE_SET_SIZE /\ \A x \in Runes : P[P[x + 1] + 1] = x)
        /\ plug_board.tag = "Ok" => plug_board.val.perm = P

\* a permutation of the 26 letters with a 3-cycle has been rejected
C8_Witness ==
    /\ plug_board.tag = "Err"
    /\ Len(perm.val) = RUNE_SET_SIZE
    /\ 3 \in CycleLens(perm.val)

\* C9: Reflector::from_perm(p) succeeds if and only if p has size 26, has no
\* fixed point and its longest cycle has length 2, that is, exactly when p
\* is a fixed-point-free involution of the 26 letters.
C9_ReflectorAcceptance ==
    reflector.tag # "None" =>
        LET P == perm.val IN
        /\ reflector.tag = "Ok" <=>
               (Len(P) = RUNE_SET_SIZE /\ CycleLens(P) = {2})
        /\ reflector.tag = "Ok" <=>
               (/\ Len(P) = RUNE_SET_SIZE
                /\ \A x \in Runes : P[x + 1] # x /\ P[P[x + 1] + 1] = x)
        /\ reflector.tag = "Ok" => reflector.val.perm = P

\* a permutation without fixed points, made of a 4-cycle and 2-cycles, has
\* been rejected
C9_Witness ==
    /\ reflector.tag = "Err"
    /\ Len(perm.val) = RUNE_SET_SIZE
    /\ CycleLens(perm.val) = {2, 4}

\* C10: Permutation::from_perm(values) fails if len(values) > 255, if a value
\* is >= len(values) or if a value is repeated; in every other case it
\* succeeds and the Permutation maps i to values[i].
C10_FromPermValidation ==
    (values.tag = "Some" /\ perm.tag # "None") =>
        LET v == values.val
            n == Len(v)
            bad == \/ n > 255
                   \/ \E k \in 1..n : v[k] >= n
                   \/ \E i, j \in 1..n : i # j /\ v[i] = v[j]
        IN /\ perm.tag = "Err" <=> bad
           /\ perm.tag = "Ok" =>
                  \A i \in 0..(n - 1) : Permutation_map(perm.val, i) = v[i + 1]

\* a vector of MaxLen values that is not the identity has been accepted
C10_Witness ==
    /\ values.tag = "Some"
    /\ perm.tag = "Ok"
    /\ Len(values.val) = MaxLen
    /\ values.val # identity_perm(MaxLen)

----------------------------------------------------------------------------
(* Constructing a machine, as Config::create_enigma does *)

\* create_permutation_from_swaps: the builder, a swap per pair, build
create_permutation_from_swaps(swaps) ==
    PermutationBuilder_build(swap_all(PermutationBuilder_new(RUNE_SET_SIZE),
                                      swaps))

\* Config::create_plug_board
create_plug_board(config) ==
    PlugBoard_from_perm(create_permutation_from_swaps(config.plug_board))

\* Config::create_rotator: Permutation::from_perm, then Rotator::new
create_rotator(config, index, offset) ==
    LET p == Permutation_from_perm(config.rotators[index + 1]) IN
    IF p.tag = "Err" THEN Err ELSE Rotator_new(p.val, offset)

\* Config::create_reflector
create_reflector(config) ==
    Reflector_from_perm(create_permutation_from_swaps(config.reflector))

\* Config::create_enigma: Err stands for the exit of the program on a
\* setting that a constructor refuses
create_enigma(config, offsets) ==
    LET pb == create_plug_board(config)
        r == [k \in 1..3 |-> create_rotator(config, k - 1, offsets[k])]
        rf == create_reflector(config)
    IN IF pb.tag = "Ok" /\ (\A k \in 1..3 : r[k].tag = "Ok") /\ rf.tag = "Ok"
       THEN Ok(Enigma_new(pb.val,
                          RotatorGroup_new(<<r[1].val, r[2].val, r[3].val>>),
                          rf.val))
       ELSE Err

Triples(S) == S \X S \X S

\* the machines that get constructed from `settings` with the rotator
\* offsets `offsets` (triples)
Machines(settings, offsets) ==
    {m.val : m \in {c \in {create_enigma(config, o) :
                              <<config, o>> \in
                                  settings \X offsets} :
                       c.tag = "Ok"}}

Offsets(machine) == [k \in 1..3 |-> machine.rotators.rotators[k].offset]

NoPerm ==
    /\ builder = None /\ values = None /\ perm = None /\ inverse = None
    /\ plug_board = None /\ reflector = None /\ rotator = None

----------------------------------------------------------------------------
(* SpecStatic: a machine whose rotators are advanced any number of times *)

InitStatic ==
    /\ NoPerm
    /\ NoCrack
    /\ enigma \in Machines(Settings, Triples(ConfigOffsets))
    /\ start = <<>> /\ calls = 0 /\ steps = <<>>
    /\ initial = None /\ log = <<>> /\ manual = 0 /\ call = None

\* machine.advance_rotators()
AdvanceRotators ==
    /\ enigma' = Enigma_advance_rotators(enigma)
    /\ UNCHANGED <<permVars, groupVars, textVars, crackVars>>

NextStatic == AdvanceRotators

SpecStatic == InitStatic /\ [][NextStatic]_vars

----------------------------------------------------------------------------
(* Claims checked under SpecStatic *)

\* C1: for every Enigma built from an accepted PlugBoard, RotatorGroup and
\* Reflector, at every rotor state reachable by advancing, map_rune_static
\* is an involution: map_rune_static(map_rune_static(L)) = L for every
\* letter L in [0, 25].
C1_StaticInvolution ==
    \A L \in Runes :
        /\ Enigma_map_rune_static(enigma, L) \in Runes
        /\ Enigma_map_rune_static(enigma, Enigma_map_rune_static(enigma, L)) = L

\* a machine with three different wirings and a plug board that swaps
\* letters, at offsets no machine starts at
C1_Witness ==
    /\ Offsets(enigma) = <<7, 3, 2>>
    /\ enigma.rotators.rotators[1].perm_forward = WiringI
    /\ PlugBoard_map(enigma.plug, 0) = 1
    /\ Enigma_map_rune_static(enigma, 0) # 0
    /\ Enigma_map_rune_static(enigma, 0) # Reflector_map(enigma.reflector, 0)

----------------------------------------------------------------------------
(* Claims checked under SpecPerm, continued *)

\* C2: for a Rotator constructed by Rotator::new from any permutation of
\* size 26 and any offset, map_backward(map_forward(L)) = L for every letter
\* L in [0, 25].
C2_RotatorRoundTrip ==
    /\ (rotator.tag = "Ok") <=>
           (perm.tag = "Ok" /\ rotator.tag # "None"
            /\ Len(perm.val) = RUNE_SET_SIZE)
    /\ rotator.tag = "Ok" =>
           \A L \in Runes :
               /\ Rotator_map_forward(rotator.val, L) \in Runes
               /\ Rotator_map_backward(rotator.val,
                                       Rotator_map_forward(rotator.val, L)) = L

\* a rotator has been constructed at a stored offset of 21 from a wiring
\* that is not its own inverse
C2_Witness ==
    /\ rotator.tag = "Ok"
    /\ rotator.val.offset = 21
    /\ rotator.val.perm_forward # rotator.val.perm_backward

----------------------------------------------------------------------------
(* SpecGroup: the rotator group of one machine, counted from construction *)

InitGroup ==
    /\ NoPerm
    /\ NoCrack
    /\ enigma \in Machines({Setting(NoPairs, ShiftWiring, ShiftWiring,
                                    ShiftWiring, FixturePairs)},
                           Triples(GroupOffsets))
    /\ start = Offsets(enigma)
    /\ calls = 0
    /\ steps = <<0, 0, 0>>
    /\ initial = None /\ log = <<>> /\ manual = 0 /\ call = None

\* machine.advance_rotators(), which is one RotatorGroup::advance; steps
\* counts, for each rotator, how far the call moved its offset
Advance ==
    /\ calls < MaxCalls
    /\ enigma' = Enigma_advance_rotators(enigma)
    /\ calls' = calls + 1
    /\ steps' = [k \in 1..3 |->
                    steps[k] + ((Offsets(enigma')[k] - Offsets(enigma)[k]
                                 + RUNE_SET_SIZE) % RUNE_SET_SIZE)]
    /\ UNCHANGED <<permVars, crackVars, start, textVars>>

NextGroup == Advance

SpecGroup == InitGroup /\ [][NextGroup]_vars

----------------------------------------------------------------------------
(* Claims checked under SpecGroup *)

\* C4: each RotatorGroup::advance call advances the fast rotator by exactly
\* one step; it advances the medium rotator if and only if the fast rotator
\* wrapped from 25 to 0 in that call, and the slow rotator if and only if
\* both the fast and the medium rotator wrapped in that call; no rotator
\* steps more than once per call.
C4_OdometerStep ==
    [][calls' = calls + 1 =>
          LET old == Offsets(enigma)
              new == Offsets(enigma')
              moved == [k \in 1..3 |->
                           (new[k] - old[k] + RUNE_SET_SIZE) % RUNE_SET_SIZE]
              wrapped == [k \in 1..3 |-> old[k] = RUNE_VALUE_MAX /\ new[k] = 0]
          IN /\ moved[1] = 1
             /\ moved[2] = (IF wrapped[1] THEN 1 ELSE 0)
             /\ moved[3] = (IF wrapped[1] /\ wrapped[2] THEN 1 ELSE 0)
             /\ \A k \in 1..3 : moved[k] <= 1]_vars

\* one call has stepped all three rotators (the fast and the medium one
\* wrapped)
C4_Witness ==
    /\ calls = 1
    /\ steps = <<1, 1, 1>>
    /\ start[1] = RUNE_VALUE_MAX /\ start[2] = RUNE_VALUE_MAX

\* C5: from any starting offsets, 26 consecutive RotatorGroup::advance calls
\* return the fast rotator to its starting offset and advance the medium
\* rotator exactly once; 26 * 26 consecutive calls advance the slow rotator
\* exactly once.
C5_CarryPropagation ==
    /\ calls = RUNE_SET_SIZE =>
           /\ Offsets(enigma)[1] = start[1]
           /\ steps[1] = RUNE_SET_SIZE
           /\ steps[2] = 1
    /\ calls = RUNE_SET_SIZE * RUNE_SET_SIZE =>
           /\ Offsets(enigma)[1] = start[1]
           /\ Offsets(enigma)[2] = start[2]
           /\ steps[2] = RUNE_SET_SIZE
           /\ steps[3] = 1

\* 26 * 26 calls have been made from offsets away from 0
C5_Witness ==
    /\ calls = RUNE_SET_SIZE * RUNE_SET_SIZE
    /\ start = <<21, 13, 24>>
    /\ steps[3] = 1

----------------------------------------------------------------------------
(* SpecEnigma: one machine mapping runes and strings *)

Call(op, arg, ret) == [op |-> op, arg |-> arg, ret |-> ret]

InitEnigma ==
    /\ NoPerm
    /\ NoCrack
    /\ enigma \in Machines(TextSettings, TextOffsets)
    /\ start = <<>> /\ calls = 0 /\ steps = <<>>
    /\ initial = enigma
    /\ log = <<>>
    /\ manual = 0
    /\ call = Call("new", <<>>, <<>>)

\* the entries map_rune calls add to the log: the rune given, the rune
\* returned, and the number of advance_rotators calls made before
Logged(trace) ==
    [k \in 1..Len(trace) |->
        [input |-> trace[k][1], output |-> trace[k][2], manual |-> manual]]

\* ret = machine.map_rune(input)
MapRune(input) ==
    /\ Len(log) < MaxLetters
    /\ LET m == Enigma_map_rune(enigma, input) IN
       /\ enigma' = m.self
       /\ log' = log \o Logged(<<<<input, m.ret>>>>)
       /\ call' = Call("map_rune", <<input>>, <<m.ret>>)
    /\ UNCHANGED <<permVars, crackVars, groupVars, initial, manual>>

\* ret = machine.map_str(s)
MapStr(s) ==
    LET m == Enigma_map_str(enigma, s) IN
    /\ Len(log) + Len(m.trace) <= MaxLetters
    /\ enigma' = m.self
    /\ log' = log \o Logged(m.trace)
    /\ call' = Call("map_str", s, m.ret)
    /\ UNCHANGED <<permVars, crackVars, groupVars, initial, manual>>

\* machine.advance_rotators(), called by the user of the machine
ManualAdvance ==
    /\ manual < MaxManual
    /\ enigma' = Enigma_advance_rotators(enigma)
    /\ manual' = manual + 1
    /\ call' = Call("advance_rotators", <<>>, <<>>)
    /\ UNCHANGED <<permVars, crackVars, groupVars, initial, log>>

NextEnigma ==
    \/ \E input \in RuneInputs : MapRune(input)
    \/ \E s \in Strings : MapStr(s)
    \/ ManualAdvance

SpecEnigma == InitEnigma /\ [][NextEnigma]_vars

----------------------------------------------------------------------------
(* Claims checked under SpecEnigma *)

\* the machine after n RotatorGroup::advance calls
RECURSIVE AdvancedBy(_, _)
AdvancedBy(machine, n) ==
    IF n = 0 THEN machine
    ELSE AdvancedBy(Enigma_advance_rotators(machine), n - 1)

IsLetter(ch) == ch \in (65..90) \cup (97..122)
LetterIndex(ch) == IF ch >= 97 THEN ch - 97 ELSE ch - 65
LettersOf(s) == SelectSeq(s, IsLetter)

\* C6: map_rune(L) returns what map_rune_static(L) returns at the rotor
\* offsets in effect before the call, and performs exactly one
\* RotatorGroup::advance after computing it; so the n-th letter processed
\* since construction is mapped at the state reached by n - 1 advances from
\* the initial offsets (plus the advance_rotators calls the caller made
\* before it, none in a run that only maps letters).
C6_MapThenAdvance ==
    /\ [](/\ \A n \in 1..Len(log) :
                 log[n].output =
                     Enigma_map_rune_static(
                         AdvancedBy(initial, (n - 1) + log[n].manual),
                         log[n].input)
          /\ enigma = AdvancedBy(initial, Len(log) + manual))
    /\ [][call'.op = "map_rune" =>
              /\ call'.ret = <<Enigma_map_rune_static(enigma, call'.arg[1])>>
              /\ enigma' = AdvancedBy(enigma, 1)
              /\ Len(log') = Len(log) + 1]_vars

\* MaxLetters letters have been mapped and advance_rotators was not called;
\* the second came out different from what the machine maps it to as
\* constructed and from what it maps it to after the call
C6_Witness ==
    /\ Len(log) = MaxLetters
    /\ manual = 0
    /\ call.op = "map_rune"
    /\ log[2].output # Enigma_map_rune_static(initial, log[2].input)
    /\ log[2].output # Enigma_map_rune_static(AdvancedBy(initial, 2), log[2].input)

\* C7: map_str(s) outputs, in order, exactly one uppercase letter (the
\* map_rune result) for each ASCII-alphabetic character of s and nothing for
\* any other character; other characters do not advance the rotors, so the
\* length of the output and the number of rotor advances both equal the
\* number of alphabetic characters of s.
C7_MapStrLettersOnly ==
    [][call'.op = "map_str" =>
          LET letters == LettersOf(call'.arg)
              n == Len(letters)
          IN /\ Len(call'.ret) = n
             /\ \A k \in 1..n :
                    /\ call'.ret[k] \in 65..90
                    /\ call'.ret[k] - 65 =
                           Enigma_map_rune_static(AdvancedBy(enigma, k - 1),
                                                  LetterIndex(letters[k]))
             /\ enigma' = AdvancedBy(enigma, n)
             /\ Len(log') = Len(log) + n]_vars

\* map_str has mapped a string of a lower-case letter and a character that
\* is no letter, on a machine that had mapped a letter before
C7_Witness ==
    /\ call.op = "map_str"
    /\ call.arg = <<91, 97>>
    /\ Len(call.ret) = 1
    /\ Len(log) = 2

----------------------------------------------------------------------------
(* Claims checked under SpecPerm: max_cycle_len *)

\* the length of the longest cycle of p, 0 when p has no cycle at all
LongestCycle(p) ==
    LET lens == CycleLens(p) \cup {0} IN
    CHOOSE m \in lens : \A l \in lens : l <= m

\* the sizes max_cycle_len is evaluated at: every size up to that of the
\* machine's alphabet
CycleSizes == 0..RUNE_SET_SIZE

\* C11 as stated: for every Permutation P accepted by from_perm, of any size
\* n, max_cycle_len(P) equals the length of the longest cycle of P and lies
\* in [1, n].
C11_MaxCycleLenInRange ==
    (perm.tag = "Ok" /\ Len(perm.val) \in CycleSizes) =>
        /\ Permutation_max_cycle_len(perm.val) = LongestCycle(perm.val)
        /\ Permutation_max_cycle_len(perm.val) \in 1..Len(perm.val)

\* C11 amended: for every Permutation P accepted by from_perm, of any size
\* n, max_cycle_len(P) equals the length of the longest cycle of P; it lies
\* in [1, n] when n >= 1, and it is 0 for the permutation of size 0, which
\* from_perm accepts.
C11_MaxCycleLen ==
    (perm.tag = "Ok" /\ Len(perm.val) \in CycleSizes) =>
        /\ Permutation_max_cycle_len(perm.val) = LongestCycle(perm.val)
        /\ Len(perm.val) >= 1 =>
               Permutation_max_cycle_len(perm.val) \in 1..Len(perm.val)
        /\ Len(perm.val) = 0 => Permutation_max_cycle_len(perm.val) = 0

\* a permutation of the alphabet with fixed points, a 2-cycle and a 3-cycle,
\* the longest cycle not being the last one the loop walks
C11_Witness ==
    /\ perm.tag = "Ok"
    /\ Len(perm.val) = RUNE_SET_SIZE
    /\ CycleLens(perm.val) = {1, 2, 3}
    /\ CycleLenOf(perm.val, 0) = 3

----------------------------------------------------------------------------
(* bin/enigma-crack.rs: reading the indicators (secret headers) *)

\* a process that ended early: std::process::exit(1) after the message, or
\* a panic
Exit(msg) == [tag |-> "Exit", val |-> msg]
Panic(msg) == [tag |-> "Panic", val |-> msg]

to_ascii_lowercase(ch) == IF is_ascii_uppercase(ch) THEN ch + 32 ELSE ch

\* char::is_whitespace, for the characters the model uses
is_whitespace(ch) == ch \in {9, 10, 13, 32}

\* str::trim
RECURSIVE trim_start(_)
trim_start(s) ==
    IF s # <<>> /\ is_whitespace(Head(s)) THEN trim_start(Tail(s)) ELSE s

RECURSIVE trim_end(_)
trim_end(s) ==
    IF s # <<>> /\ is_whitespace(s[Len(s)])
    THEN trim_end(SubSeq(s, 1, Len(s) - 1))
    ELSE s

trim(s) == trim_end(trim_start(s))

\* the bytes a char takes in a str (UTF-8)
len_utf8(ch) ==
    IF ch < 128 THEN 1 ELSE IF ch < 2048 THEN 2 ELSE IF ch < 65536 THEN 3 ELSE 4

\* str::len: the length in bytes
RECURSIVE str_len(_)
str_len(s) == IF s = <<>> THEN 0 ELSE len_utf8(Head(s)) + str_len(Tail(s))

\* the loop of load_secret_headers over the lines of the file, from line k on
RECURSIVE load_secret_headers_loop(_, _, _)
load_secret_headers_loop(file_lines, k, ret) ==
    IF k > Len(file_lines) THEN Ok(ret)
    ELSE LET ln == trim(file_lines[k]) IN
         IF str_len(ln) # 6
         THEN Exit("some line has a length other than 6")
         ELSE LET s == [c \in 1..Len(ln) |-> to_ascii_lowercase(ln[c])] IN
              IF \E c \in 1..Len(s) : ~is_ascii_alphabetic(s[c])
              THEN Exit("non-alphabetic characters found")
              ELSE load_secret_headers_loop(file_lines, k + 1, Append(ret, s))

\* the same loop without the test of the line's length
RECURSIVE load_secret_headers_loop_any_len(_, _, _)
load_secret_headers_loop_any_len(file_lines, k, ret) ==
    IF k > Len(file_lines) THEN Ok(ret)
    ELSE LET ln == trim(file_lines[k])
             s == [c \in 1..Len(ln) |-> to_ascii_lowercase(ln[c])]
         IN IF \E c \in 1..Len(s) : ~is_ascii_alphabetic(s[c])
            THEN Exit("non-alphabetic characters found")
            ELSE load_secret_headers_loop_any_len(file_lines, k + 1,
                                                  Append(ret, s))

load_secret_headers_any_len(file) ==
    IF file.tag = "Err" THEN Exit("Failed to open secret header file")
    ELSE load_secret_headers_loop_any_len(file.val, 1, <<>>)

\* load_secret_headers(path); file is what File::open(path) gives: Err, or
\* Ok of the file's lines
load_secret_headers(file) ==
    IF file.tag = "Err" THEN Exit("Failed to open secret header file")
    ELSE load_secret_headers_loop(file.val, 1, <<>>)

\* the value an i8 slot holds that is compared with, or assigned, a u8
\* (`output as i8`)
AsI8(x) == IF AsU8(x) >= 128 THEN AsU8(x) - (U8_MAX + 1) ELSE AsU8(x)

\* the loops of get_secret_permutations over the headers (k) and the
\* offsets i = 0, 1, 2.  secret_bytes[i] is the byte of the character, and
\* it indexes a buffer of RUNE_SET_SIZE entries: an index past the end is
\* a panic.
RECURSIVE get_secret_permutations_loop(_, _, _, _)
get_secret_permutations_loop(headers, k, i, secret_perm_buf) ==
    IF k > Len(headers) THEN Ok(secret_perm_buf)
    ELSE IF i >= 3
    THEN get_secret_permutations_loop(headers, k + 1, 0, secret_perm_buf)
    ELSE LET secret_bytes == headers[k]
             input == secret_bytes[i + 1]
             output == secret_bytes[i + 3 + 1]
             buf == secret_perm_buf[i + 1]
         IN IF input >= Len(buf) THEN Panic("index out of bounds")
            ELSE IF buf[input + 1] # -1 /\ buf[input + 1] # AsI8(output)
            THEN Exit("conflicting secret permutation")
            ELSE get_secret_permutations_loop(
                     headers, k, i + 1,
                     [secret_perm_buf EXCEPT ![i + 1][input + 1] =
                                                 AsI8(output)])

\* get_secret_permutations(secret_headers): Exit, Panic, or Ok of the three
\* permutations
get_secret_permutations(headers) ==
    LET filled == get_secret_permutations_loop(
                      headers, 1, 0,
                      [i \in 1..3 |-> [x \in 1..RUNE_SET_SIZE |-> -1]])
    IN IF filled.tag # "Ok" THEN filled
       ELSE IF \E i \in 1..3 : \E x \in 1..RUNE_SET_SIZE : filled.val[i][x] = -1
       THEN Exit("too little secrets to crack")
       ELSE LET perms == [i \in 1..3 |->
                             Permutation_from_perm(
                                 [x \in 1..RUNE_SET_SIZE |->
                                     AsU8(filled.val[i][x] + (U8_MAX + 1))])]
            IN IF \E i \in 1..3 : perms[i].tag = "Err"
               THEN Panic("unwrap on an Err value")
               ELSE Ok([i \in 1..3 |-> perms[i].val])

----------------------------------------------------------------------------
(* bin/enigma-crack.rs: the machine of the search, the cycles *)

\* create_permutation_from_swaps, over pairs of chars
RECURSIVE crack_create_permutation_from_swaps_loop(_, _)
crack_create_permutation_from_swaps_loop(swaps, b) ==
    IF swaps = <<>> THEN Ok(PermutationBuilder_build(b))
    ELSE LET sw == Head(swaps) IN
         IF ~is_ascii_alphabetic(sw[1]) \/ ~is_ascii_alphabetic(sw[2]) THEN Err
         ELSE LET lhs == to_ascii_lowercase(sw[1]) - 97
                  rhs == to_ascii_lowercase(sw[2]) - 97
              IN crack_create_permutation_from_swaps_loop(
                     Tail(swaps), PermutationBuilder_swap(b, lhs, rhs))

crack_create_permutation_from_swaps(swaps) ==
    crack_create_permutation_from_swaps_loop(
        swaps, PermutationBuilder_new(RUNE_SET_SIZE))

\* create_permutation_from_string
crack_create_permutation_from_string(s) ==
    IF \E c \in 1..Len(s) : ~is_ascii_alphabetic(s[c]) THEN Err
    ELSE Permutation_from_perm([c \in 1..Len(s) |->
                                   to_ascii_lowercase(s[c]) - 97])

\* create_rotator that sets the rotator one step on
crack_create_rotator_offset_1(cfg, index) ==
    LET p == crack_create_permutation_from_string(cfg.rotators[index + 1]) IN
    IF p.tag = "Err" THEN Exit("invalid rotator setting")
    ELSE LET r == Rotator_new(p.val, 1) IN
         IF r.tag = "Err" THEN Exit("invalid rotator setting") ELSE r

\* Config::create_rotator: the rotator at offset 0, or the exit
crack_create_rotator(cfg, index) ==
    LET p == crack_create_permutation_from_string(cfg.rotators[index + 1]) IN
    IF p.tag = "Err" THEN Exit("invalid rotator setting")
    ELSE LET r == Rotator_new(p.val, 0) IN
         IF r.tag = "Err" THEN Exit("invalid rotator setting") ELSE r

\* Config::create_reflector
crack_create_reflector(cfg) ==
    LET p == crack_create_permutation_from_swaps(cfg.reflector) IN
    IF p.tag = "Err" THEN Exit("invalid reflector setting")
    ELSE LET r == Reflector_from_perm(p.val) IN
         IF r.tag = "Err" THEN Exit("invalid reflector setting") ELSE r

\* Config::create_enigma: the plug board is the identity; the rotators are
\* created before the reflector
crack_create_enigma(cfg) ==
    LET plug == PlugBoard_from_perm(
                    PermutationBuilder_build(
                        PermutationBuilder_new(RUNE_SET_SIZE)))
        r == [k \in 1..3 |-> crack_create_rotator(cfg, k - 1)]
        rf == crack_create_reflector(cfg)
    IN IF plug.tag = "Err" THEN Panic("unwrap on an Err value")
       ELSE IF \E k \in 1..3 : r[k].tag = "Exit"
       THEN Exit("invalid rotator setting")
       ELSE IF rf.tag = "Exit" THEN rf
       ELSE Ok(Enigma_new(plug.val,
                          RotatorGroup_new(<<r[1].val, r[2].val, r[3].val>>),
                          rf.val))

\* the walk without `visited[j] = true`
RECURSIVE get_cycle_decomposition_walk_no_mark(_, _, _, _, _)
get_cycle_decomposition_walk_no_mark(p, visited, i, j, cycle_len) ==
    IF j = i THEN [visited |-> visited, cycle_len |-> cycle_len]
    ELSE get_cycle_decomposition_walk_no_mark(p, visited, i, p[j + 1],
                                              cycle_len + 1)

\* the inner `while j != i` of get_cycle_decomposition
RECURSIVE get_cycle_decomposition_walk(_, _, _, _, _)
get_cycle_decomposition_walk(p, visited, i, j, cycle_len) ==
    IF j = i THEN [visited |-> visited, cycle_len |-> cycle_len]
    ELSE get_cycle_decomposition_walk(p, [visited EXCEPT ![j + 1] = TRUE], i,
                                      p[j + 1], cycle_len + 1)

\* the outer `for i in 0..perm.len()` of get_cycle_decomposition
RECURSIVE get_cycle_decomposition_loop(_, _, _, _)
get_cycle_decomposition_loop(p, visited, i, ret) ==
    IF i >= Len(p) THEN ret
    ELSE IF visited[i + 1]
    THEN get_cycle_decomposition_loop(p, visited, i + 1, ret)
    ELSE LET w == get_cycle_decomposition_walk(p, visited, i, p[i + 1], 1) IN
         get_cycle_decomposition_loop(p, w.visited, i + 1,
                                      Append(ret, w.cycle_len))

\* get_cycle_decomposition(perm): the cycles' lengths, in the order of the
\* cycles' least elements
get_cycle_decomposition(p) ==
    get_cycle_decomposition_loop(p, [k \in 1..Len(p) |-> FALSE], 0, <<>>)

\* is_cycle_decomposition_eq: the two HashSets of lengths are equal
is_cycle_decomposition_eq(lhs, rhs) ==
    {lhs[k] : k \in 1..Len(lhs)} = {rhs[k] : k \in 1..Len(rhs)}

\* one entry of all_perms in get_all_rotator_reflector_perm: the machine's
\* static map of each rune value 0..25 (the argument of Rune::from_value is
\* written `mapped`, which names nothing there; it is read as the loop's i)
machine_permutation(machine) ==
    LET perm_vec == [x \in 1..RUNE_SET_SIZE |->
                        Enigma_map_rune_static(machine, x - 1)]
        p == Permutation_from_perm(perm_vec)
    IN IF p.tag = "Err" THEN Panic("unwrap on an Err value") ELSE p

\* the loop of combine_permutations: ret is created by Vec::with_capacity,
\* so its length is 0, and `ret[i as usize] = output` past the length is a
\* panic
RECURSIVE combine_permutations_loop(_, _, _, _)
combine_permutations_loop(lhs, rhs, i, ret) ==
    IF i >= RUNE_SET_SIZE THEN Ok(ret)
    ELSE LET output == Permutation_map(rhs, Permutation_map(lhs, i)) IN
         IF i >= Len(ret) THEN Panic("index out of bounds")
         ELSE combine_permutations_loop(lhs, rhs, i + 1,
                                        [ret EXCEPT ![i + 1] = output])

combine_permutations(lhs, rhs) ==
    LET ret == combine_permutations_loop(lhs, rhs, 0, <<>>) IN
    IF ret.tag = "Panic" THEN ret
    ELSE LET p == Permutation_from_perm(ret.val) IN
         IF p.tag = "Err" THEN Panic("unwrap on an Err value") ELSE p

----------------------------------------------------------------------------
(* Inputs of enigma-crack *)

\* a wiring as the String of the configuration, in lower or upper case
LowerLetters(w) == [k \in 1..Len(w) |-> 97 + w[k]]
UpperLetters(w) == [k \in 1..Len(w) |-> 65 + w[k]]

\* swaps as the [char; 2] of the configuration
CharPairs(pairs) ==
    [k \in 1..Len(pairs) |-> <<65 + pairs[k][1], 97 + pairs[k][2]>>]

CrackConfig(r1, r2, r3, rf) ==
    [rotators |-> <<r1, r2, r3>>, reflector |-> rf]

ConfigA ==
    CrackConfig(LowerLetters(WiringI), UpperLetters(WiringII),
                LowerLetters(WiringIII), CharPairs(MirrorPairs))
ConfigB ==
    CrackConfig(LowerLetters(WiringIII), LowerLetters(WiringI),
                LowerLetters(WiringII), CharPairs(FixturePairs))

\* configurations a constructor refuses: a rotator with a repeated
\* letter, a rotator with a digit, a reflector with fixed points
BadCrackConfigs ==
    {CrackConfig(LowerLetters([WiringI EXCEPT ![1] = 10]),
                 LowerLetters(WiringII), LowerLetters(WiringIII),
                 CharPairs(MirrorPairs)),
     CrackConfig(LowerLetters(WiringI),
                 [LowerLetters(WiringII) EXCEPT ![2] = 49],
                 LowerLetters(WiringIII), CharPairs(MirrorPairs)),
     CrackConfig(LowerLetters(WiringI), LowerLetters(WiringII),
                 LowerLetters(WiringIII), CharPairs(TwoPairs))}

\* the machine that enciphers the indicators: the machine of the
\* configuration with the plug board of `pairs`, s advances after
\* construction
SenderMachine(cfg, pairs, s) ==
    AdvancedBy([crack_create_enigma(cfg).val EXCEPT
                    !.plug = create_plug_board([plug_board |-> pairs]).val],
               s)

\* the indicators of 26 messages: each key xxx, typed twice on the sender's
\* machine at its starting position
Indicators(machine) ==
    [x \in 1..RUNE_SET_SIZE |->
        Enigma_map_str(machine, [c \in 1..6 |-> 96 + x]).ret]

\* "abcdef", "abcxyz" (the same inputs, other outputs), "ghidef"
Abcdef == <<97, 98, 99, 100, 101, 102>>
Abcxyz == <<97, 98, 99, 120, 121, 122>>
Ghidef == <<103, 104, 105, 100, 101, 102>>

\* lines no indicator can be: 5 letters, 7 letters, a digit, and 5 chars
\* in 6 bytes
Abcde == <<97, 98, 99, 100, 101>>
Abcdefg == <<97, 98, 99, 100, 101, 102, 103>>
Abc1ef == <<97, 98, 99, 49, 101, 102>>
AbcdE9 == <<97, 98, 99, 100, 233>>

\* lines that load: the three indicators, one of them in upper case with
\* white space around it
IndicatorPool ==
    {Abcdef, Abcxyz, Ghidef, <<32, 65, 66, 67, 68, 69, 70, 9>>}

MalformedPool == {Abcde, Abcdefg, Abc1ef, AbcdE9, <<>>}

\* the secret header files handed to get_secret_permutations after
\* loading: up to two lines of the pool, and the indicators of 26 messages
SecretFiles ==
    UNION {[1..n -> IndicatorPool \cup MalformedPool] : n \in 0..2}
    \cup {Indicators(SenderMachine(ConfigA, NoPairs, 0)),
          Indicators(SenderMachine(ConfigA, TwoPairs, 1)),
          Indicators(SenderMachine(ConfigB, FixturePairs, 3))}

----------------------------------------------------------------------------
(* SpecSecret: load_secret_headers, then get_secret_permutations on what  *)
(* it returned                                                             *)

InitSecret ==
    /\ NoPerm
    /\ enigma = None
    /\ start = <<>> /\ calls = 0 /\ steps = <<>>
    /\ initial = None /\ log = <<>> /\ manual = 0 /\ call = None
    /\ crack_config = None
    /\ lines \in {Ok(f) : f \in SecretFiles} \cup {Err}
    /\ secret_headers = None
    /\ secret_perms = None
    /\ pc = "load_secret_headers"
    /\ all_perms = 0
    /\ possible_settings = <<>>

\* main, line 288: let secret_headers = load_secret_headers(..)
LoadSecretHeaders ==
    /\ pc = "load_secret_headers"
    /\ secret_headers' = load_secret_headers(lines)
    /\ pc' = IF secret_headers'.tag = "Ok" THEN "get_all_rotator_reflector_perm"
             ELSE "exit"
    /\ UNCHANGED <<permVars, enigma, groupVars, textVars, crack_config, lines,
                   secret_perms, all_perms, possible_settings>>

\* get_secret_permutations(&secret_headers)
GetSecretPermutations ==
    /\ secret_headers.tag = "Ok"
    /\ secret_perms.tag = "None"
    /\ secret_perms' = get_secret_permutations(secret_headers.val)
    /\ UNCHANGED <<permVars, enigma, groupVars, textVars, crack_config, lines,
                   secret_headers, pc, all_perms, possible_settings>>

NextSecret == LoadSecretHeaders \/ GetSecretPermutations

SpecSecret == InitSecret /\ [][NextSecret]_vars

----------------------------------------------------------------------------
(* SpecCrack: main of enigma-crack, from the loaded configuration on *)

\* num_perms of get_all_rotator_reflector_perm
num_perms == RUNE_SET_SIZE * RUNE_SET_SIZE * RUNE_SET_SIZE

\* the runs of main: ConfigA with files of every kind, ConfigB with the
\* indicators of its own machine, the refused configurations with a file
\* that loads
CrackRuns ==
    ({ConfigA} \X
         ({Ok(f) : f \in {Indicators(SenderMachine(ConfigA, NoPairs, 0)),
                          Indicators(SenderMachine(ConfigA, TwoPairs, 1)),
                          <<>>, <<Abcdef, Ghidef>>, <<Abcdef, Abcxyz>>,
                          <<Abcde>>, <<Abcdefg>>, <<Abcdef, Abc1ef>>,
                          <<AbcdE9>>, <<Abcdef, <<>>>>}}
          \cup {Err}))
    \cup ({ConfigB} \X
              {Ok(Indicators(SenderMachine(ConfigB, FixturePairs, 3)))})
    \cup (BadCrackConfigs \X {Ok(<<Abcdef>>)})

InitCrack ==
    /\ NoPerm
    /\ enigma = None
    /\ start = <<>> /\ calls = 0 /\ steps = <<>>
    /\ initial = None /\ log = <<>> /\ manual = 0 /\ call = None
    /\ \E run \in CrackRuns : crack_config = run[1] /\ lines = run[2]
    /\ secret_headers = None
    /\ secret_perms = None
    /\ pc = "load_secret_headers"
    /\ all_perms = 0
    /\ possible_settings = <<>>

\* get_all_rotator_reflector_perm, line 178: let mut machine =
\* config.create_enigma(); initial keeps the machine as created
CreateEnigma ==
    /\ pc = "get_all_rotator_reflector_perm"
    /\ enigma.tag = "None"
    /\ LET machine == crack_create_enigma(crack_config) IN
       IF machine.tag = "Ok"
       THEN enigma' = machine /\ initial' = machine.val /\ pc' = pc
       ELSE pc' = "exit" /\ UNCHANGED <<enigma, initial>>
    /\ UNCHANGED <<permVars, groupVars, log, manual, call, crack_config,
                   lines, secret_headers, secret_perms, all_perms,
                   possible_settings>>

\* one round of `for _ in 0..num_perms`: the machine's permutation is
\* pushed to all_perms and the rotors advance
PushPerm ==
    /\ pc = "get_all_rotator_reflector_perm"
    /\ enigma.tag = "Ok"
    /\ all_perms < num_perms
    /\ IF machine_permutation(enigma.val).tag = "Panic"
       THEN pc' = "panic" /\ UNCHANGED <<enigma, all_perms>>
       ELSE /\ all_perms' = all_perms + 1
            /\ enigma' = Ok(Enigma_advance_rotators(enigma.val))
            /\ pc' = pc
    /\ UNCHANGED <<permVars, groupVars, textVars, crack_config, lines,
                   secret_headers, secret_perms, possible_settings>>

\* all_perms[i]
AllPerms(i) == machine_permutation(AdvancedBy(initial, i)).val

\* main, lines 293-297, the first round of the loop that fills
\* merged_perms: combine_permutations(&all_perms[0], &all_perms[3])
CombinePermutations ==
    /\ pc = "get_all_rotator_reflector_perm"
    /\ all_perms = num_perms
    /\ LET i == 0
           j == (i + 3) % all_perms
       IN pc' = IF combine_permutations(AllPerms(i), AllPerms(j)).tag = "Panic"
                THEN "panic"
                ELSE "merged_perms"
    /\ UNCHANGED <<permVars, enigma, groupVars, textVars, crack_config, lines,
                   secret_headers, secret_perms, all_perms, possible_settings>>

NextCrack ==
    \/ LoadSecretHeaders
    \/ CreateEnigma
    \/ PushPerm
    \/ CombinePermutations

SpecCrack == InitCrack /\ [][NextCrack]_vars

----------------------------------------------------------------------------
(* The notions the claims on the search are stated in *)

\* main has ended
Ended == pc \in {"exit", "panic", "done"}

\* i is among the positions main reported
Reported(i) == \E k \in 1..Len(possible_settings) : possible_settings[k] = i

\* the messages whose indicators the file holds: the configuration the
\* search is run with, the sender's plug board, the sender's starting
\* position
SenderRuns ==
    {<<ConfigA, NoPairs, 0>>, <<ConfigA, TwoPairs, 1>>,
     <<ConfigB, FixturePairs, 3>>}

\* what the indicators assign for the offset pair (i, i + 3): the pairs
\* <<input letter, output letter>>, letters as indices 0..25
Assigned(headers, i) ==
    {<<LetterIndex(headers[k][i + 1]), LetterIndex(headers[k][i + 4])>> :
        k \in 1..Len(headers)}

\* two indicators assign one input letter two different output letters
Conflicting(headers) ==
    \E i \in 0..2 : \E a, b \in Assigned(headers, i) :
        a[1] = b[1] /\ a[2] # b[2]

\* every input letter is assigned in each of the three offset pairs
Filled(headers) ==
    \A i \in 0..2 : {a[1] : a \in Assigned(headers, i)} = Runes

\* the indicator set passes Step 2
PassesStep2(headers) == ~Conflicting(headers) /\ Filled(headers)

----------------------------------------------------------------------------
(* Claims checked under SpecCrack *)

\* C12: soundness of the search: for the configured rotor wirings and
\* reflector and a true starting position s, if the indicators are produced
\* by enciphering doubled 3-letter keys on a machine started at s, and the
\* indicator set passes Step 2, then s is among the positions the search
\* reports.
C12_SearchSound ==
    (Ended /\ secret_headers.tag = "Ok") =>
        \A r \in SenderRuns :
            (/\ crack_config = r[1]
             /\ lines.val = Indicators(SenderMachine(r[1], r[2], r[3]))
             /\ PassesStep2(secret_headers.val))
            => Reported(r[3])

----------------------------------------------------------------------------
(* SpecCharacteristic: machines with letters swapped on the plug board,   *)
(* advanced through every position                                        *)

InitCharacteristic ==
    /\ NoPerm
    /\ NoCrack
    /\ enigma \in Machines(TextSettings, {<<0, 0, 0>>})
    /\ start = <<>> /\ calls = 0 /\ steps = <<>>
    /\ initial = None /\ log = <<>> /\ manual = 0 /\ call = None

NextCharacteristic == AdvanceRotators

SpecCharacteristic == InitCharacteristic /\ [][NextCharacteristic]_vars

----------------------------------------------------------------------------
(* Claims checked under SpecCharacteristic *)

\* the machine with the identity plug board in place of its own
IdentityPlugged(machine) ==
    [machine EXCEPT !.plug = create_plug_board([plug_board |-> NoPairs]).val]

\* the machine's permutation at its position, then its permutation 3
\* advances later (the position after the last one is the first)
Characteristic(machine) ==
    LET later == AdvancedBy(machine, 3) IN
    [x \in 1..RUNE_SET_SIZE |->
        Enigma_map_rune_static(later, Enigma_map_rune_static(machine, x - 1))]

\* how many cycles of each length a decomposition holds
CycleCounts(decomposition) ==
    [l \in 1..RUNE_SET_SIZE |->
        Cardinality({k \in 1..Len(decomposition) : decomposition[k] = l})]

\* C13: for every rotor position i and every valid PlugBoard S, the
\* composite 'machine permutation at position i, then machine permutation
\* at position (i + 3) mod N' has the same cycle decomposition when the
\* machine uses plug board S as when it uses the identity plug board.
C13_PlugBoardIndependent ==
    /\ IsPermutation(Characteristic(enigma))
    /\ CycleCounts(get_cycle_decomposition(Characteristic(enigma)))
           = CycleCounts(get_cycle_decomposition(
                             Characteristic(IdentityPlugged(enigma))))

\* a machine whose plug board swaps letters, one advance before the fast
\* and the medium rotator wrap: the composite differs from that of the
\* machine with the identity plug board, and has cycles of several lengths
C13_Witness ==
    /\ PlugBoard_map(enigma.plug, 0) = 1
    /\ Offsets(enigma) = <<RUNE_VALUE_MAX, RUNE_VALUE_MAX, 2>>
    /\ Characteristic(enigma) # Characteristic(IdentityPlugged(enigma))
    /\ Cardinality(CycleLens(Characteristic(enigma))) > 1

----------------------------------------------------------------------------
(* Claims checked under SpecCrack, continued *)

\* the permutation the indicators assign for the offset pair (i, i + 3),
\* for an indicator set that passes Step 2
IndicatorPermutation(headers, i) ==
    [x \in 1..RUNE_SET_SIZE |->
        CHOOSE y \in Runes : <<x - 1, y>> \in Assigned(headers, i)]

\* combined[i]: the permutation of the search's machine i advances after
\* construction, then its permutation 3 advances later
Combined(i) == Characteristic(AdvancedBy(initial, i))

\* position i matches the indicators: the sets of distinct cycle lengths
\* agree for combined[i], combined[i + 1], combined[i + 2] and the first,
\* second and third indicator permutation
Matches(headers, i) ==
    \A k \in 0..2 :
        CycleLens(Combined((i + k) % num_perms))
            = CycleLens(IndicatorPermutation(headers, k))

\* C14: the search reports position i in [0, N) if and only if the
\* decompositions of combined[i], combined[(i + 1) mod N] and
\* combined[(i + 2) mod N] equal those of the first, second and third
\* indicator permutation, two decompositions being equal when they hold the
\* same set of distinct cycle lengths; every such i is reported and no
\* other value is.
C14_SearchExact ==
    (Ended /\ secret_headers.tag = "Ok" /\ PassesStep2(secret_headers.val)) =>
        /\ \A k \in 1..Len(possible_settings) :
               possible_settings[k] \in 0..(num_perms - 1)
        /\ \A i \in 0..(num_perms - 1) :
               Reported(i) <=> Matches(secret_headers.val, i)

----------------------------------------------------------------------------
(* Claims checked under SpecSecret *)

\* get_secret_permutations has been called on the loaded indicators
Processed == secret_headers.tag = "Ok" /\ secret_perms.tag # "None"

\* the call ended in the fatal error with this message
Fatal(msg) == secret_perms.tag = "Exit" /\ secret_perms.val = msg

\* C15: for each offset pair (0,3), (1,4), (2,5), the permutation derived
\* from the indicators maps the letter index (0..25) of the character at the
\* input position to the letter index of the character at the output
\* position, for every indicator of the dataset.
C15_IndicatorPermutations ==
    (Processed /\ PassesStep2(secret_headers.val)) =>
        /\ secret_perms.tag = "Ok"
        /\ \A i \in 0..2 : \A k \in 1..Len(secret_headers.val) :
               Permutation_map(secret_perms.val[i + 1],
                               LetterIndex(secret_headers.val[k][i + 1]))
                   = LetterIndex(secret_headers.val[k][i + 4])

\* C16: if two indicators assign the same input letter to two different
\* output letters for the same offset pair, indicator processing ends in
\* the fatal conflict error; an input letter assigned the same output
\* letter repeatedly is not a conflict.
C16_ConflictFatal ==
    Processed =>
        (Conflicting(secret_headers.val)
             <=> Fatal("conflicting secret permutation"))

\* C17: if, after all indicators are processed without conflict, any of the
\* 26 input letters is unassigned in any of the three derived permutations,
\* processing ends in the fatal insufficient-indicators error; in
\* particular an empty indicator set is always fatal.
C17_InsufficientFatal ==
    (/\ Processed
     /\ ~Conflicting(secret_headers.val)
     /\ ~Filled(secret_headers.val))
    => Fatal("too little secrets to crack")

----------------------------------------------------------------------------
(* The fatal input paths of main, checked under SpecCrack *)

\* the line, white space at its ends apart, is no indicator: it has a
\* length other than 6, or a character that is no letter
Malformed(line) ==
    LET t == trim(line) IN
    \/ str_len(t) # 6
    \/ \E c \in 1..Len(t) : ~IsLetter(t[c])

\* the file has a malformed line
MalformedFile == lines.tag = "Ok" /\ \E k \in 1..Len(lines.val) : Malformed(lines.val[k])

\* the loaded indicator set is conflicting or insufficient
FailsStep2 == secret_headers.tag = "Ok" /\ ~PassesStep2(secret_headers.val)

\* the table of the permutations of the positions is being, or has been,
\* generated
TableStarted == enigma.tag # "None" \/ all_perms > 0

\* main has come to the matching of the candidates
Matching == pc \in {"merged_perms", "matching", "done"}

----------------------------------------------------------------------------
(* SpecRotator: one rotator, constructed by Rotator::new, advanced and    *)
(* mapping letters                                                         *)

\* the permutations handed to Rotator::new: three wirings of size 26 and
\* one permutation of another size
RotatorPerms == {WiringI, WiringIII, ShiftWiring, identity_perm(MaxSwapIdx + 1)}

InitRotator ==
    /\ builder = None /\ values = None
    /\ perm \in {Ok(p) : p \in RotatorPerms}
    /\ inverse = None
    /\ plug_board = None
    /\ reflector = None
    /\ rotator = None
    /\ NoMachine
    /\ NoCrack

\* rotator.advance()
RotatorAdvance ==
    /\ rotator.tag = "Ok"
    /\ LET r == Rotator_advance(rotator.val) IN
       /\ rotator' = Ok(r.self)
       /\ call' = Call("advance", <<>>, r.ret)
    /\ UNCHANGED <<builder, values, perm, inverse, plug_board, reflector,
                   enigma, groupVars, initial, log, manual, crackVars>>

\* rotator.map_forward(input)
RotatorMapForward(input) ==
    /\ rotator.tag = "Ok"
    /\ call' = Call("map_forward", input,
                    Rotator_map_forward(rotator.val, input))
    /\ UNCHANGED <<permVars, enigma, groupVars, initial, log, manual,
                   crackVars>>

\* rotator.map_backward(input)
RotatorMapBackward(input) ==
    /\ rotator.tag = "Ok"
    /\ call' = Call("map_backward", input,
                    Rotator_map_backward(rotator.val, input))
    /\ UNCHANGED <<permVars, enigma, groupVars, initial, log, manual,
                   crackVars>>

NextRotator ==
    \/ \E offset \in OffsetInputs : RotatorNew(offset)
    \/ RotatorAdvance
    \/ \E input \in Runes : RotatorMapForward(input)
    \/ \E input \in Runes : RotatorMapBackward(input)

SpecRotator == InitRotator /\ [][NextRotator]_vars

----------------------------------------------------------------------------
(* Claims checked under SpecRotator *)

\* the wiring that undoes p: it takes p[x] to x
InverseWiring(p) ==
    [k \in 1..Len(p) |-> CHOOSE x \in 0..(Len(p) - 1) : p[x + 1] = k - 1]

\* (wiring((L + offset) mod 26) - offset) mod 26
ShiftedMap(wiring, offset, L) ==
    (wiring[((L + offset) % RUNE_SET_SIZE) + 1] - offset + RUNE_SET_SIZE)
        % RUNE_SET_SIZE

\* the values of 8-bit unsigned arithmetic
U8 == 0..U8_MAX

\* the last call made on the rotator is op
Called(op) == call # None /\ call.op = op

\* C19: for every letter L in [0, 25] and rotator offset in [0, 25],
\* map_forward and map_backward return (perm((L + offset) mod 26) - offset)
\* mod 26 for the forward respectively the inverse wiring; no addition or
\* subtraction of the computation leaves the range of 8-bit unsigned
\* arithmetic, and the result is in [0, 25].
C19_RotatorMapArithmetic ==
    /\ Called("map_forward") =>
           /\ call.ret = ShiftedMap(perm.val, rotator.val.offset, call.arg)
           /\ call.ret \in Runes
           /\ Rotator_map_arith(rotator.val, rotator.val.perm_forward,
                                call.arg) \subseteq U8
    /\ Called("map_backward") =>
           /\ call.ret = ShiftedMap(InverseWiring(perm.val),
                                    rotator.val.offset, call.arg)
           /\ call.ret \in Runes
           /\ Rotator_map_arith(rotator.val, rotator.val.perm_backward,
                                call.arg) \subseteq U8

\* map_backward has mapped the letter 25 at offset 25, through the second
\* path of the computation (the wiring's output is below the offset)
C19_Witness ==
    /\ Called("map_backward")
    /\ call.arg = RUNE_VALUE_MAX
    /\ rotator.val.offset = RUNE_VALUE_MAX
    /\ perm.val = WiringI
    /\ Permutation_map(rotator.val.perm_backward, RUNE_VALUE_MAX - 1)
           < rotator.val.offset

\* C20: advance sets the offset to (offset + 1) mod 26 and returns true
\* unless the new offset is 0 (false exactly on the step from 25 to 0); the
\* offset of a rotator is in [0, 25] after Rotator::new with any 8-bit
\* offset and after any number of advance calls.
C20_RotatorAdvance ==
    /\ [](rotator.tag = "Ok" => rotator.val.offset \in Runes)
    /\ [][RotatorAdvance =>
              /\ rotator'.val.offset
                     = (rotator.val.offset + 1) % RUNE_SET_SIZE
              /\ call'.ret = (rotator'.val.offset # 0)
              /\ call'.ret = ~(rotator.val.offset = RUNE_VALUE_MAX)
              /\ Rotator_advance_arith(rotator.val) \subseteq U8
              /\ rotator'.val.perm_forward = rotator.val.perm_forward
              /\ rotator'.val.perm_backward = rotator.val.perm_backward]_vars

\* advance has just returned false on a rotator whose wiring is WiringI
C20_Witness ==
    /\ Called("advance")
    /\ call.ret = FALSE
    /\ rotator.tag = "Ok"
    /\ rotator.val.offset = 0
    /\ perm.val = WiringI

----------------------------------------------------------------------------
(* SpecFixture: the machine of the fixture (no plugs, three identity      *)
(* rotors at offset 0, the reflector (A B)(C D)...(Y Z)) mapping strings   *)

\* the strings mapped: each upper-case letter, "a", "b", and the strings
\* of two letters over 'A', 'b', 'Z'
LetterStrings ==
    {<<ch>> : ch \in (65..90) \cup {97, 98}}
    \cup [1..2 -> {65, 98, 90}]

InitFixture ==
    /\ NoPerm
    /\ NoCrack
    /\ enigma \in Machines({Setting(NoPairs, IdentityWiring, IdentityWiring,
                                    IdentityWiring, FixturePairs)},
                           {<<0, 0, 0>>})
    /\ start = <<>> /\ calls = 0 /\ steps = <<>>
    /\ initial = enigma
    /\ log = <<>>
    /\ manual = 0
    /\ call = Call("new", <<>>, <<>>)

NextFixture == \E s \in LetterStrings : MapStr(s)

SpecFixture == InitFixture /\ [][NextFixture]_vars

\* the letter the reflector (A B)(C D)...(Y Z) pairs L with
Partner(L) == IF L % 2 = 0 THEN L + 1 ELSE L - 1

\* the call is the first of the machine: every letter mapped so far is
\* one of its argument
Fresh == Len(log) = Len(call.arg)

\* C21: with an identity plug board, three identity-wired rotors at offset
\* 0 and the reflector (A B)(C D)...(Y Z), a fresh machine encrypts "A" to
\* "B" and a fresh machine encrypts "B" to "A"; every letter is mapped to
\* its reflector partner.
C21_FixtureReflects ==
    (call.op = "map_str" /\ Fresh) =>
        /\ call.arg = <<65>> => call.ret = <<66>>
        /\ call.arg = <<66>> => call.ret = <<65>>
        /\ call.ret = [k \in 1..Len(call.arg) |->
                          65 + Partner(LetterIndex(call.arg[k]))]

\* a fresh machine has just mapped the string "A"
C21_Witness ==
    /\ call.op = "map_str"
    /\ call.arg = <<65>>
    /\ Len(log) = 1
    /\ Offsets(initial) = <<0, 0, 0>>
    /\ Offsets(enigma) = <<1, 0, 0>>

----------------------------------------------------------------------------
(* The table of Step 1, checked under SpecTable *)

\* the rotor offsets of position p: the fast rotator counts the units, the
\* medium one the 26s, the slow one the 676s
PositionOffsets(p) ==
    <<p % RUNE_SET_SIZE,
      (p \div RUNE_SET_SIZE) % RUNE_SET_SIZE,
      (p \div (RUNE_SET_SIZE * RUNE_SET_SIZE)) % RUNE_SET_SIZE>>

\* the machine with its rotators at position p
AtPosition(machine, p) ==
    [machine EXCEPT !.rotators.rotators =
        [k \in 1..3 |-> [@[k] EXCEPT !.offset = PositionOffsets(p)[k]]]]

\* the table is being, or has been, generated
TableBegun == enigma.tag = "Ok"

C24_CombinedComposes ==
    (TableBegun /\ pc # "get_all_rotator_reflector_perm") =>
        /\ pc = "merged_perms"
        /\ LET lhs == AllPerms(0)
               rhs == AllPerms(3 % num_perms)
               combined == combine_permutations(lhs, rhs)
           IN /\ combined.tag = "Ok"
              /\ IsPermutation(combined.val)
              /\ \A x \in Runes :
                     Permutation_map(combined.val, x)
                         = Permutation_map(rhs, Permutation_map(lhs, x))

----------------------------------------------------------------------------
(* SpecCycles: get_cycle_decomposition applied to one valid Permutation *)

\* the permutations decomposed: every permutation of every size up to
\* MaxPermSize, and permutations of the alphabet (wirings, pairings with
\* and without fixed points, the shift, the identity)
CyclePerms ==
    UNION {{q \in [1..n -> 0..(n - 1)] : IsPermutation(q)} :
              n \in 0..MaxPermSize}
    \cup {WiringI, WiringII, WiringIII, ShiftWiring, IdentityWiring,
          create_permutation_from_swaps(TwoPairs),
          create_permutation_from_swaps(MirrorPairs),
          create_permutation_from_swaps(<<<<0, 1>>, <<1, 2>>, <<5, 6>>>>)}

InitCycles ==
    /\ builder = None /\ values = None
    /\ perm \in {Ok(p) : p \in CyclePerms}
    /\ inverse = None
    /\ plug_board = None
    /\ reflector = None
    /\ rotator = None
    /\ NoMachine
    /\ NoCrack

\* get_cycle_decomposition(&perm)
GetCycleDecomposition ==
    /\ call = None
    /\ call' = Call("get_cycle_decomposition", perm.val,
                    get_cycle_decomposition(perm.val))
    /\ UNCHANGED <<permVars, enigma, groupVars, initial, log, manual,
                   crackVars>>

NextCycles == GetCycleDecomposition

SpecCycles == InitCycles /\ [][NextCycles]_vars

\* the cycle of p that x lies on, and the cycles of p
CycleOf(p, x) == {Iterate(p, x, k) : k \in 0..(Len(p) - 1)}
Cycles(p) == {CycleOf(p, x) : x \in 0..(Len(p) - 1)}

\* the sum and the largest of the entries of a decomposition (0 when it
\* has no entry)
RECURSIVE SumOf(_)
SumOf(d) == IF d = <<>> THEN 0 ELSE Head(d) + SumOf(Tail(d))
LargestOf(d) ==
    LET entries == {d[k] : k \in 1..Len(d)} \cup {0} IN
    CHOOSE m \in entries : \A e \in entries : e <= m

\* C25: for every valid permutation P of size n, get_cycle_decomposition(P)
\* contains exactly one entry per cycle of P (fixed points included), each
\* entry equal to that cycle's length, so the entries sum to n and their
\* maximum equals P.max_cycle_len().
C25_CycleDecomposition ==
    Called("get_cycle_decomposition") =>
        LET P == call.arg
            d == call.ret
        IN /\ Len(d) = Cardinality(Cycles(P))
           /\ \A l \in 0..Len(P) :
                  Cardinality({k \in 1..Len(d) : d[k] = l})
                      = Cardinality({c \in Cycles(P) : Cardinality(c) = l})
           /\ SumOf(d) = Len(P)
           /\ LargestOf(d) = Permutation_max_cycle_len(P)

\* a permutation of the alphabet with fixed points, a 2-cycle and a 3-cycle
\* has been decomposed
C25_Witness ==
    /\ Called("get_cycle_decomposition")
    /\ Len(call.arg) = RUNE_SET_SIZE
    /\ CycleLens(call.arg) = {1, 2, 3}
    /\ Len(call.ret) = RUNE_SET_SIZE - 3

----------------------------------------------------------------------------
(* Claims checked under SpecStatic, continued *)

\* C26: at every rotor state reachable by advancing and for every accepted
\* plug board, the machine never maps a letter to itself:
\* map_rune_static(L) # L for every letter L in [0, 25].
C26_NoLetterToItself ==
    \A L \in Runes : Enigma_map_rune_static(enigma, L) # L

\* a machine whose plug board swaps A and B and whose reflector pairs A
\* with Z stands at a position all three rotators have been advanced to
C26_Witness ==
    /\ PlugBoard_map(enigma.plug, 0) = 1
    /\ Reflector_map(enigma.reflector, 0) = RUNE_VALUE_MAX
    /\ Offsets(enigma) = <<3, 14, 15>>
    /\ Enigma_map_rune_static(enigma, 0) # 0

----------------------------------------------------------------------------
(* SpecReciprocal: two machines built from the same components at the     *)
(* same offsets; the first maps a string, the second maps what came out    *)

InitReciprocal ==
    /\ NoPerm
    /\ NoCrack
    /\ enigma \in Machines(TextSettings, TextOffsets)
    /\ start = <<>> /\ calls = 0 /\ steps = <<>>
    /\ initial = enigma
    /\ log = <<>>
    /\ manual = 0
    /\ call = Call("new", <<>>, <<>>)

\* ciphertext = first.map_str(s)
FirstMapStr(s) ==
    /\ call.op = "new"
    /\ LET m == Enigma_map_str(enigma, s) IN
       /\ enigma' = m.self
       /\ call' = Call("first.map_str", s, m.ret)
       /\ log' = Append(log, call')
    /\ UNCHANGED <<permVars, crackVars, groupVars, initial, manual>>

\* second.map_str(ciphertext)
SecondMapStr ==
    /\ call.op = "first.map_str"
    /\ LET m == Enigma_map_str(initial, call.ret) IN
       /\ initial' = m.self
       /\ call' = Call("second.map_str", call.ret, m.ret)
       /\ log' = Append(log, call')
    /\ UNCHANGED <<permVars, crackVars, groupVars, enigma, manual>>

NextReciprocal ==
    \/ \E s \in Strings : FirstMapStr(s)
    \/ SecondMapStr

SpecReciprocal == InitReciprocal /\ [][NextReciprocal]_vars

\* the ASCII letters of s, in order, in upper case
UpperLettersOf(s) ==
    [k \in 1..Len(LettersOf(s)) |-> 65 + LetterIndex(LettersOf(s)[k])]

\* C27: two Enigma machines built from the same components at the same
\* initial offsets are reciprocal over whole texts: for every string s,
\* second.map_str(first.map_str(s)) equals the ASCII letters of s, in
\* order, converted to uppercase.
C27_Reciprocal ==
    call.op = "second.map_str" =>
        /\ log[1].op = "first.map_str"
        /\ call.arg = log[1].ret
        /\ call.ret = UpperLettersOf(log[1].arg)

\* the second machine has given back "AZ" for the string "aZ", which the
\* first machine had enciphered to other letters, from offsets at which
\* the fast and the medium rotator wrap within the text
C27_Witness ==
    /\ call.op = "second.map_str"
    /\ log[1].arg = <<97, 90>>
    /\ call.ret = <<65, 90>>
    /\ call.arg # <<65, 90>>
    /\ Offsets(enigma) = <<1, 0, 22>>
    /\ Offsets(initial) = <<1, 0, 22>>

----------------------------------------------------------------------------
(* SpecPeriod: the rotator group of one machine advanced once around *)

\* the offsets handed to the three rotators: all 0, all 25, and four
\* triples in between (39 is stored as 13, 255 as 21)
PeriodStarts ==
    {<<0, 0, 0>>,
     <<RUNE_VALUE_MAX, RUNE_VALUE_MAX, RUNE_VALUE_MAX>>,
     <<U8_MAX, RUNE_SET_SIZE + 13, 1>>,
     <<12, 0, RUNE_VALUE_MAX>>,
     <<0, RUNE_VALUE_MAX, 7>>,
     <<RUNE_VALUE_MAX, 3, 0>>}

InitPeriod ==
    /\ NoPerm
    /\ NoCrack
    /\ enigma \in Machines({Setting(NoPairs, ShiftWiring, ShiftWiring,
                                    ShiftWiring, FixturePairs)},
                           PeriodStarts)
    /\ start = Offsets(enigma)
    /\ calls = 0
    /\ steps = <<>>
    /\ initial = None /\ log = <<>> /\ manual = 0 /\ call = None

\* machine.advance_rotators(), which is one RotatorGroup::advance, until
\* num_perms calls have been made
AdvanceAround ==
    /\ calls < num_perms
    /\ enigma' = Enigma_advance_rotators(enigma)
    /\ calls' = calls + 1
    /\ UNCHANGED <<permVars, crackVars, start, steps, textVars>>

NextPeriod == AdvanceAround

SpecPeriod == InitPeriod /\ [][NextPeriod]_vars

\* the index of an offset triple: the fast rotator counts the units
PositionIndex(offsets) ==
    offsets[1] + RUNE_SET_SIZE * offsets[2]
        + RUNE_SET_SIZE * RUNE_SET_SIZE * offsets[3]

\* C28: the rotor group has period exactly N = 26*26*26: from any starting
\* offsets, N consecutive RotatorGroup::advance calls return all three
\* offsets to their starting values, and the N states visited on the way
\* are pairwise distinct (no state before the N-th call is the starting
\* one again, and the call count mod N tells the offsets), so a position
\* index taken mod N identifies exactly one offset triple.
C28_PeriodExact ==
    /\ calls = num_perms => Offsets(enigma) = start
    /\ calls \in 1..(num_perms - 1) => Offsets(enigma) # start
    /\ PositionIndex(Offsets(enigma))
           = (PositionIndex(start) + calls) % num_perms
    /\ Offsets(enigma)
           = PositionOffsets((PositionIndex(start) + calls) % num_perms)

\* N calls have been made from offsets given as 255, 39, 1
C28_Witness ==
    /\ calls = num_perms
    /\ start = <<21, 13, 1>>
    /\ Offsets(enigma) = start

----------------------------------------------------------------------------
(* Claims checked under SpecSecret, continued *)

\* C29: whenever get_secret_permutations reports neither a conflict nor an
\* unassigned position, each of the three derived mappings is a bijection
\* on the 26 letters, so constructing the three Permutations from them (the
\* final unwrap) never fails: the call returns three valid permutations.
C29_UnwrapNeverFails ==
    (/\ Processed
     /\ ~Fatal("conflicting secret permutation")
     /\ ~Fatal("too little secrets to crack"))
    => /\ secret_perms.tag = "Ok"
       /\ \A i \in 1..3 :
              /\ Len(secret_perms.val[i]) = RUNE_SET_SIZE
              /\ IsPermutation(secret_perms.val[i])

----------------------------------------------------------------------------
(* SpecTable: main from the call of get_all_rotator_reflector_perm on,    *)
(* the secret header file having loaded                                    *)

InitTable ==
    /\ NoPerm
    /\ enigma = None
    /\ start = <<>> /\ calls = 0 /\ steps = <<>>
    /\ initial = None /\ log = <<>> /\ manual = 0 /\ call = None
    /\ crack_config \in {ConfigA, ConfigB} \cup BadCrackConfigs
    /\ lines = Ok(<<Abcdef>>)
    /\ secret_headers = load_secret_headers(lines)
    /\ secret_perms = None
    /\ pc = "get_all_rotator_reflector_perm"
    /\ all_perms = 0
    /\ possible_settings = <<>>

NextTable ==
    \/ CreateEnigma
    \/ PushPerm
    \/ CombinePermutations

SpecTable == InitTable /\ [][NextTable]_vars

====
